---- MODULE Spec2Model ----
(***************************************************************************)
(* A model of the sports-fashion-analytics scripts:                        *)
(*   src/src/data_processing/process_data.py  (class DataProcessor)        *)
(*   src/src/data_collection/collect_trends.py (collector and __main__)    *)
(*                                                                         *)
(* Tables are records [cols, rows]: cols is the sequence of column names,  *)
(* rows the sequence of rows, each row a function from column name to a    *)
(* cell.  A cell is <<>> (a missing value, pandas' NaN) or <<v>>.          *)
(***************************************************************************)
EXTENDS Integers, Sequences, FiniteSets, TLC

VARIABLES
    \* ---- inputs on disk (data/raw), chosen in Init
    rawSales,      \* tenniscore_sales.csv            (a table, or MISSING)
    sportswear,    \* womens_sportswear_market.csv    (a table, or MISSING)
    jersey,        \* jersey_market.csv               (a table, or MISSING)
    trends,        \* google_trends.csv               (a table, or MISSING)
    challengers,   \* challengers_impact.csv          (a table, or MISSING)
    \* ---- DataProcessor
    ppc,           \* position of the processor run
    melted,        \* value returned by load_tenniscore_sales
    meltedSrc,     \* for each row of melted: <<input row, value_var index>>
    combined,      \* value returned by load_market_data
    swapped,       \* pd.merge(jersey, sportswear, on='year', how='outer')
    summary,       \* value returned by create_summary_stats
    error,         \* the exception that ended the processor run, or NoError
    attempted,     \* process_all: tables whose derivation was started
    written,       \* process_all: files written to data/processed, in order
    \* ---- collector script
    initOK,        \* does TrendReq(...) construct without raising
    outcome,       \* per group: what the trends service does ("ok", "empty", "fail")
    cpc,           \* position of the collector script
    gi,            \* index of the group the for loop is at
    all_data,      \* the list all_data (categories of the appended frames)
    log,           \* sequence of events: <<"call", g>> and <<"sleep", g>>
    df,            \* __main__'s df: [kind, groups], kind "none" for None
    csv,           \* what this run wrote to ../data/raw/google_trends.csv
    data           \* generate_sample_data: the list data, one row per date

inputVars == <<rawSales, sportswear, jersey, trends, challengers>>
procVars  == <<ppc, melted, meltedSrc, combined, swapped, summary, error, attempted, written>>
collVars  == <<initOK, outcome, cpc, gi, all_data, log, df, csv, data>>
vars      == <<inputVars, procVars, collVars>>

----------------------------------------------------------------------------
(* Cells and generic helpers *)

NULL == <<>>
V(x) == <<x>>
IsNull(c) == c = NULL

MISSING == [cols |-> <<"?">>, rows |-> <<>>]   \* an unreadable / absent file
NoTable == [cols |-> <<>>, rows |-> <<>>]      \* nothing computed yet
NoError == [type |-> "none", line |-> 0]

Range(s) == {s[i] : i \in 1..Len(s)}

RECURSIVE Flatten(_)
Flatten(ss) == IF ss = <<>> THEN <<>> ELSE Head(ss) \o Flatten(Tail(ss))

SeqsUpTo(S, n) == UNION {[1..k -> S] : k \in 0..n}

RECURSIVE SortedSeqOf(_)
SortedSeqOf(S) ==
    IF S = {} THEN <<>>
    ELSE LET m == CHOOSE x \in S : \A y \in S : x <= y
         IN <<m>> \o SortedSeqOf(S \ {m})

\* the subsequence of s at the indices I, in order
SubSeqAt(s, I) == LET idx == SortedSeqOf(I) IN [k \in 1..Len(idx) |-> s[idx[k]]]

----------------------------------------------------------------------------
(* load_tenniscore_sales: melt, rename, dropna *)

id_vars   == <<"category", "item", "yoy_growth_pct">>
demo_cols == <<"gen_z_growth_pct", "millennial_growth_pct",
               "gen_x_growth_pct", "baby_boomer_growth_pct">>
SalesCols == id_vars \o demo_cols
LongCols  == id_vars \o <<"demographic", "demo_growth_pct">>

\* a faulty variant: the replacement that strips nothing
StrReplaceNothing(name) == name

\* str.replace('_growth_pct', '') on the names melt puts in 'demographic'
StrReplaceSuffix(name) ==
    CASE name = "gen_z_growth_pct"        -> "gen_z"
      [] name = "millennial_growth_pct"   -> "millennial"
      [] name = "gen_x_growth_pct"        -> "gen_x"
      [] name = "baby_boomer_growth_pct"  -> "baby_boomer"
      [] OTHER                            -> name

\* one output row of melt: the id_vars of input row r, the variable name, its value
MeltRow(r, var) ==
    [c \in Range(LongCols) |->
        IF c = "demographic" THEN V(var)
        ELSE IF c = "demo_growth_pct" THEN r[var]
        ELSE r[c]]

\* a faulty variant of the order: input row by input row
MeltOrderRowMajor(n) ==
    Flatten([i \in 1..n |-> [j \in 1..Len(demo_cols) |-> <<i, j>>]])

\* df.melt emits one block per value_var, in value_vars order, each block in
\* input row order.  The order is given as pairs <<input row, value_var index>>.
MeltOrder(n) ==
    Flatten([j \in 1..Len(demo_cols) |-> [i \in 1..n |-> <<i, j>>]])

\* a faulty variant of dropna: only the melted value column is inspected
HasNaDemoOnly(row) == IsNull(row["demo_growth_pct"])

\* dropna() drops a row holding a missing value in ANY column
HasNa(row) == \E c \in DOMAIN row : IsNull(row[c])

\* the melted, renamed frame before dropna, with each row's provenance
MeltCells(t) ==
    LET ord == MeltOrder(Len(t.rows))
    IN [k \in 1..Len(ord) |->
          [src |-> ord[k],
           row |-> [MeltRow(t.rows[ord[k][1]], demo_cols[ord[k][2]])
                       EXCEPT !["demographic"] =
                           V(StrReplaceSuffix(demo_cols[ord[k][2]]))]]]

KeepCell(cell) == ~HasNa(cell.row)

LoadTenniscoreCells(t) ==
    LET cells == MeltCells(t)
    IN SubSeqAt(cells, {i \in 1..Len(cells) : KeepCell(cells[i])})

\* load_tenniscore_sales applied to the table read from tenniscore_sales.csv
LoadTenniscoreSales(t) ==
    LET kept == LoadTenniscoreCells(t)
    IN [cols |-> LongCols, rows |-> [k \in 1..Len(kept) |-> kept[k].row]]

LoadTenniscoreSrc(t) ==
    LET kept == LoadTenniscoreCells(t) IN [k \in 1..Len(kept) |-> kept[k].src]

----------------------------------------------------------------------------
(* load_market_data: pd.merge(sportswear, jersey, on='year', how='outer') *)

SportswearCols == <<"year", "market_value_billion_usd", "segment">>
JerseyCols     == <<"year", "sports_jersey_market_billion_usd",
                    "football_jersey_market_billion_usd">>

YearsOf(t) == {t.rows[i]["year"][1] : i \in 1..Len(t.rows)}

RowsOfYear(t, y) ==
    SubSeqAt(t.rows, {i \in 1..Len(t.rows) : t.rows[i]["year"] = V(y)})

OtherCols(t) == SelectSeq(t.cols, LAMBDA c : c # "year")

\* a faulty variant: the key is taken from the left row only
JoinRowKeyFromLeft(L, R, y, l, r) ==
    [c \in Range(L.cols) \cup Range(R.cols) |->
        IF c = "year" THEN (IF l = <<>> THEN NULL ELSE V(y))
        ELSE IF c \in Range(L.cols) THEN (IF l = <<>> THEN NULL ELSE l[1][c])
        ELSE (IF r = <<>> THEN NULL ELSE r[1][c])]

\* a row of the result: the cells of l and r where given, missing elsewhere
JoinRow(L, R, y, l, r) ==
    [c \in Range(L.cols) \cup Range(R.cols) |->
        IF c = "year" THEN V(y)
        ELSE IF c \in Range(L.cols) THEN (IF l = <<>> THEN NULL ELSE l[1][c])
        ELSE (IF r = <<>> THEN NULL ELSE r[1][c])]

\* the rows of the result for one key
JoinKey(L, R, y) ==
    LET ls == RowsOfYear(L, y)
        rs == RowsOfYear(R, y)
    IN IF ls = <<>> THEN [j \in 1..Len(rs) |-> JoinRow(L, R, y, <<>>, <<rs[j]>>)]
       ELSE IF rs = <<>> THEN [i \in 1..Len(ls) |-> JoinRow(L, R, y, <<ls[i]>>, <<>>)]
       ELSE Flatten([i \in 1..Len(ls) |->
                       [j \in 1..Len(rs) |-> JoinRow(L, R, y, <<ls[i]>>, <<rs[j]>>)]])

\* a faulty variant: the keys of a left join
JoinKeysLeft(L, R) == YearsOf(L)

\* how='outer': the union of the keys of both frames
JoinKeys(L, R) == YearsOf(L) \cup YearsOf(R)

\* pd.merge(L, R, on='year', how='outer'); an outer join sorts the keys
MergeOuter(L, R) ==
    LET keys == SortedSeqOf(JoinKeys(L, R))
    IN [cols |-> L.cols \o OtherCols(R),
        rows |-> Flatten([k \in 1..Len(keys) |-> JoinKey(L, R, keys[k])])]

\* load_market_data applied to the two tables read from disk
LoadMarketData(sw, js) == MergeOuter(sw, js)

----------------------------------------------------------------------------
(* Input families *)

MaxSalesRows  == 2
MaxMarketRows == 2

Growth == {V(10), V(30)}

SalesRows ==
    [category : {V("apparel")}, item : {V("skirt")},
     yoy_growth_pct : Growth \cup {NULL},
     gen_z_growth_pct : {V(10), NULL}, millennial_growth_pct : {V(10), NULL},
     gen_x_growth_pct : {V(10), NULL}, baby_boomer_growth_pct : {V(10), NULL}]

SalesRow(item, yoy, gx) ==
    [category |-> V("apparel"), item |-> V(item), yoy_growth_pct |-> V(yoy),
     gen_z_growth_pct |-> V(40), millennial_growth_pct |-> V(30),
     gen_x_growth_pct |-> gx, baby_boomer_growth_pct |-> V(5)]

\* three items, one of them with a missing gen_x_growth_pct
ExampleSales ==
    [cols |-> SalesCols,
     rows |-> <<SalesRow("skirt", 30, V(20)), SalesRow("dress", 25, NULL),
                SalesRow("polo", 10, V(15))>>]

\* three items, no missing value, all values different within a row
FullSales ==
    [cols |-> SalesCols,
     rows |-> <<SalesRow("skirt", 30, V(20)), SalesRow("dress", 25, V(12)),
                SalesRow("polo", 10, V(15))>>]

SalesTables ==
    {[cols |-> SalesCols, rows |-> rs] : rs \in SeqsUpTo(SalesRows, MaxSalesRows)}
    \cup {ExampleSales, FullSales}

Years == {2023, 2024, 2025, 2033}

SportswearRows ==
    {[year |-> V(y), market_value_billion_usd |-> v,
      segment |-> V(IF y > 2024 THEN "forecast" ELSE "historical")] :
        y \in Years, v \in {V(210), V(250)}}

JerseyRows ==
    {[year |-> V(y), sports_jersey_market_billion_usd |-> V(7),
      football_jersey_market_billion_usd |-> V(3)] : y \in Years}

SportswearOfYears(ys) ==
    [cols |-> SportswearCols,
     rows |-> [k \in 1..Len(ys) |->
                 [year |-> V(ys[k]), market_value_billion_usd |-> V(ys[k] - 1800),
                  segment |-> V(IF ys[k] > 2024 THEN "forecast" ELSE "historical")]]]

JerseyOfYears(ys) ==
    [cols |-> JerseyCols,
     rows |-> [k \in 1..Len(ys) |->
                 [year |-> V(ys[k]), sports_jersey_market_billion_usd |-> V(7),
                  football_jersey_market_billion_usd |-> V(3)]]]

ExampleSportswear == SportswearOfYears(<<2023, 2024, 2033>>)
ExampleJersey     == JerseyOfYears(<<2024, 2025>>)

SportswearTables ==
    {[cols |-> SportswearCols, rows |-> rs] : rs \in SeqsUpTo(SportswearRows, MaxMarketRows)}
    \cup {ExampleSportswear}

JerseyTables ==
    {[cols |-> JerseyCols, rows |-> rs] : rs \in SeqsUpTo(JerseyRows, MaxMarketRows)}
    \cup {ExampleJersey}

----------------------------------------------------------------------------
(* Idle values of the parts a specification does not run *)

Groups == <<"tenniscore", "soccer_fashion", "womens_sports">>

NoSummary == [c \in {} |-> NULL]

ProcStart(pc) ==
    /\ ppc = pc
    /\ melted = NoTable /\ meltedSrc = <<>>
    /\ combined = NoTable /\ swapped = NoTable
    /\ summary = NoSummary /\ error = NoError
    /\ attempted = <<>> /\ written = <<>>

CollIdle ==
    /\ initOK = TRUE
    /\ outcome = [g \in 1..Len(Groups) |-> "ok"]
    /\ cpc = "idle" /\ gi = 0 /\ all_data = <<>> /\ log = <<>>
    /\ df = [kind |-> "unset", groups |-> <<>>]
    /\ csv = [kind |-> "unset", groups |-> <<>>]
    /\ data = <<>>

----------------------------------------------------------------------------
(* SpecSales: load_tenniscore_sales on every table of SalesTables *)

InitSales ==
    /\ rawSales \in SalesTables
    /\ sportswear = MISSING /\ jersey = MISSING
    /\ trends = MISSING /\ challengers = MISSING
    /\ ProcStart("sales")
    /\ CollIdle

load_tenniscore_sales ==
    /\ ppc = "sales"
    /\ melted' = LoadTenniscoreSales(rawSales)
    /\ meltedSrc' = LoadTenniscoreSrc(rawSales)
    /\ ppc' = "sales_done"
    /\ UNCHANGED <<combined, swapped, summary, error, attempted, written>>
    /\ UNCHANGED <<inputVars, collVars>>

NextSales == load_tenniscore_sales

SpecSales == InitSales /\ [][NextSales]_vars

----------------------------------------------------------------------------
(* SpecMarket: load_market_data on every pair of market tables, and the same
   merge with its arguments exchanged *)

InitMarket ==
    /\ rawSales = MISSING
    /\ sportswear \in SportswearTables /\ jersey \in JerseyTables
    /\ trends = MISSING /\ challengers = MISSING
    /\ ProcStart("market")
    /\ CollIdle

load_market_data ==
    /\ ppc = "market"
    /\ combined' = LoadMarketData(sportswear, jersey)
    /\ ppc' = "market_done"
    /\ UNCHANGED <<melted, meltedSrc, swapped, summary, error, attempted, written>>
    /\ UNCHANGED <<inputVars, collVars>>

merge_exchanged ==
    /\ ppc = "market_done"
    /\ swapped' = MergeOuter(jersey, sportswear)
    /\ ppc' = "exchanged_done"
    /\ UNCHANGED <<melted, meltedSrc, combined, summary, error, attempted, written>>
    /\ UNCHANGED <<inputVars, collVars>>

NextMarket == load_market_data \/ merge_exchanged

SpecMarket == InitMarket /\ [][NextMarket]_vars

----------------------------------------------------------------------------
(* create_summary_stats *)

Err(type, line) == [type |-> type, line |-> line]

\* dates are days since 2023-01-01; this is '2026-01-01'
Date20260101 == 1096

TrendsSampleCols ==
    <<"date", "tenniscore", "tennis_skirt", "soccer_jersey", "football_kit",
      "womens_activewear", "category">>

\* the non-missing values of column c, in row order
ColumnValues(t, c) ==
    LET idx == SortedSeqOf({i \in 1..Len(t.rows) : ~IsNull(t.rows[i][c])})
    IN [k \in 1..Len(idx) |-> t.rows[idx[k]][c][1]]

RECURSIVE SumSeq(_)
SumSeq(s) == IF s = <<>> THEN 0 ELSE Head(s) + SumSeq(Tail(s))

\* Series.max(): missing values are skipped, an empty series gives NaN
SeriesMax(vals) ==
    IF vals = <<>> THEN NULL
    ELSE V(CHOOSE m \in Range(vals) : \A x \in Range(vals) : x <= m)

\* Series.mean(): the exact quotient sum/count, NaN for an empty series
SeriesMean(vals) ==
    IF vals = <<>> THEN NULL ELSE V([sum |-> SumSeq(vals), count |-> Len(vals)])

\* DataFrame.nlargest(n, col): the n rows of largest col, descending, ties in
\* row order (keep='first')
RECURSIVE NLargest(_, _, _)
NLargest(rows, n, col) ==
    IF n = 0 \/ rows = <<>> THEN <<>>
    ELSE LET i == CHOOSE i \in 1..Len(rows) :
                    /\ \A k \in 1..Len(rows) : rows[k][col][1] <= rows[i][col][1]
                    /\ \A k \in 1..(i - 1) : rows[k][col][1] < rows[i][col][1]
         IN <<rows[i]>> \o
            NLargest(SubSeqAt(rows, (1..Len(rows)) \ {i}), n - 1, col)

\* a faulty variant: the last matching row instead of the first
MarketRowsLastFirst(market, y) ==
    LET rs == RowsOfYear(market, y)
    IN [k \in 1..Len(rs) |-> rs[Len(rs) + 1 - k]]

\* market[market['year'] == y]
MarketRowsOf(market, y) == RowsOfYear(market, y)

\* the exception create_summary_stats raises on these inputs, or NoError
SummaryError(sales, sw, js, tr) ==
    IF sales = MISSING THEN Err("FileNotFoundError", 18)
    ELSE IF sw = MISSING THEN Err("FileNotFoundError", 40)
    ELSE IF js = MISSING THEN Err("FileNotFoundError", 41)
    ELSE IF MarketRowsOf(LoadMarketData(sw, js), 2024) = <<>> THEN Err("IndexError", 69)
    ELSE IF MarketRowsOf(LoadMarketData(sw, js), 2033) = <<>> THEN Err("IndexError", 70)
    ELSE IF tr = MISSING THEN Err("FileNotFoundError", 50)
    ELSE IF "date" \notin Range(tr.cols) THEN Err("KeyError", 51)
    ELSE IF "tenniscore" \notin Range(tr.cols) THEN Err("KeyError", 74)
    ELSE IF "soccer_jersey" \notin Range(tr.cols) THEN Err("KeyError", 75)
    ELSE IF LoadTenniscoreSales(sales).rows = <<>> THEN Err("IndexError", 78)
    ELSE NoError

\* the single row create_summary_stats returns when it raises nothing
SummaryRow(sales, sw, js, tr) ==
    LET tenniscore     == LoadTenniscoreSales(sales)
        top_items      == NLargest(tenniscore.rows, 5, "yoy_growth_pct")
        market         == LoadMarketData(sw, js)
        latest_market  == MarketRowsOf(market, 2024)[1]
        projected_2033 == MarketRowsOf(market, 2033)[1]
        current        == [cols |-> tr.cols,
                           rows |-> SelectSeq(tr.rows,
                                      LAMBDA r : r["date"][1] >= Date20260101)]
    IN [tenniscore_peak_growth          |-> top_items[1]["yoy_growth_pct"],
        market_2024_billion             |-> latest_market["market_value_billion_usd"],
        market_2033_billion             |-> projected_2033["market_value_billion_usd"],
        market_growth_rate              |-> V("7.0"),
        tenniscore_search_peak          |-> SeriesMax(ColumnValues(tr, "tenniscore")),
        soccer_jersey_trend_current     |-> SeriesMean(ColumnValues(current, "soccer_jersey")),
        challengers_media_value_million |-> V("42.5")]

----------------------------------------------------------------------------
(* Input families of the processor runs *)

EmptySales == [cols |-> SalesCols, rows |-> <<>>]

\* one item, every demographic value missing: nothing survives dropna
BlankSales ==
    [cols |-> SalesCols,
     rows |-> <<[SalesRow("skirt", 30, NULL) EXCEPT
                    !["gen_z_growth_pct"] = NULL, !["millennial_growth_pct"] = NULL,
                    !["baby_boomer_growth_pct"] = NULL]>>]

\* the year 2024 twice, with different values
DupSportswear ==
    [cols |-> SportswearCols,
     rows |-> <<[year |-> V(2024), market_value_billion_usd |-> V(224),
                 segment |-> V("historical")],
                [year |-> V(2033), market_value_billion_usd |-> V(233),
                 segment |-> V("forecast")],
                [year |-> V(2024), market_value_billion_usd |-> V(999),
                 segment |-> V("historical")]>>]

TrendsRow(date, tc, sj) ==
    [c \in Range(TrendsSampleCols) |->
        CASE c = "date"              -> V(date)
          [] c = "tenniscore"        -> V(tc)
          [] c = "tennis_skirt"      -> V((tc * 8) \div 10)
          [] c = "soccer_jersey"     -> V(sj)
          [] c = "football_kit"      -> V((sj * 7) \div 10)
          [] c = "womens_activewear" -> V(40 + date \div 30)
          [] c = "category"          -> V("search_trends")]

SampleTrends ==
    [cols |-> TrendsSampleCols,
     rows |-> <<TrendsRow(476, 79, 30), TrendsRow(483, 79, 30),
                TrendsRow(1099, 20, 59), TrendsRow(1106, 20, 60)>>]

OldTrends ==
    [cols |-> TrendsSampleCols, rows |-> <<TrendsRow(476, 79, 30)>>]

\* what the primary path of the collector leaves when only the tenniscore
\* group produced data
CollectedTrends ==
    [cols |-> <<"date", "tenniscore", "tennis skirt", "tennis dress",
                "challengers fashion", "category">>,
     rows |-> <<[date |-> V(476), tenniscore |-> V(70), category |-> V("tenniscore")]
                  @@ [c \in {"tennis skirt", "tennis dress", "challengers fashion"} |-> V(5)]>>]

ChallengersTable ==
    [cols |-> <<"date", "value">>, rows |-> <<[date |-> V(481), value |-> V(1)]>>]

ProcSales       == {MISSING, ExampleSales, EmptySales, BlankSales}
ProcSportswear  == {MISSING, ExampleSportswear, DupSportswear,
                    SportswearOfYears(<<2033, 2023>>), SportswearOfYears(<<2024>>)}
ProcJersey      == {MISSING, ExampleJersey, JerseyOfYears(<<2033>>)}
ProcTrends      == {MISSING, SampleTrends, OldTrends, CollectedTrends}
ProcChallengers == {MISSING, ChallengersTable}

InitInputs ==
    /\ rawSales \in ProcSales
    /\ sportswear \in ProcSportswear /\ jersey \in ProcJersey
    /\ trends \in ProcTrends /\ challengers \in ProcChallengers

----------------------------------------------------------------------------
(* SpecSummary: one call of create_summary_stats *)

InitSummary == InitInputs /\ ProcStart("summary") /\ CollIdle

create_summary_stats ==
    /\ ppc = "summary"
    /\ LET e == SummaryError(rawSales, sportswear, jersey, trends)
       IN /\ error' = e
          /\ summary' = IF e = NoError
                        THEN SummaryRow(rawSales, sportswear, jersey, trends)
                        ELSE summary
          /\ ppc' = IF e = NoError THEN "summary_done" ELSE "summary_raised"
    /\ UNCHANGED <<melted, meltedSrc, combined, swapped, attempted, written>>
    /\ UNCHANGED <<inputVars, collVars>>

NextSummary == create_summary_stats

SpecSummary == InitSummary /\ [][NextSummary]_vars

----------------------------------------------------------------------------
(* SpecProcess: one run of process_all, one action per table *)

Tables == <<"tenniscore", "market", "trends", "challengers", "summary">>
Files  == <<"tenniscore_processed.csv", "market_combined.csv", "trends_processed.csv",
            "challengers_processed.csv", "summary_stats.csv">>

InitProcess == InitInputs /\ ProcStart("tenniscore") /\ CollIdle

\* a faulty variant: an exception is swallowed and the next table is reached
StepKeepGoing(k, e) ==
    /\ ppc = Tables[k]
    /\ attempted' = Append(attempted, Tables[k])
    /\ error' = e
    /\ written' = IF e = NoError THEN Append(written, Files[k]) ELSE written
    /\ ppc' = IF k < Len(Tables) THEN Tables[k + 1]
              ELSE IF e # NoError THEN "raised" ELSE "done"
    /\ UNCHANGED <<inputVars, collVars, swapped>>

\* one table of process_all: the derivation is started; an exception leaves
\* process_all, otherwise the file is written and the next table is reached
Step(k, e) ==
    /\ ppc = Tables[k]
    /\ attempted' = Append(attempted, Tables[k])
    /\ error' = e
    /\ written' = IF e = NoError THEN Append(written, Files[k]) ELSE written
    /\ ppc' = IF e # NoError THEN "raised"
              ELSE IF k < Len(Tables) THEN Tables[k + 1] ELSE "done"
    /\ UNCHANGED <<inputVars, collVars, swapped>>

process_tenniscore ==
    LET e == IF rawSales = MISSING THEN Err("FileNotFoundError", 18) ELSE NoError
    IN /\ Step(1, e)
       /\ melted' = IF e = NoError THEN LoadTenniscoreSales(rawSales) ELSE melted
       /\ meltedSrc' = IF e = NoError THEN LoadTenniscoreSrc(rawSales) ELSE meltedSrc
       /\ UNCHANGED <<combined, summary>>

process_market ==
    LET e == IF sportswear = MISSING THEN Err("FileNotFoundError", 40)
             ELSE IF jersey = MISSING THEN Err("FileNotFoundError", 41)
             ELSE NoError
    IN /\ Step(2, e)
       /\ combined' = IF e = NoError THEN LoadMarketData(sportswear, jersey) ELSE combined
       /\ UNCHANGED <<melted, meltedSrc, summary>>

process_trends ==
    LET e == IF trends = MISSING THEN Err("FileNotFoundError", 50)
             ELSE IF "date" \notin Range(trends.cols) THEN Err("KeyError", 51)
             ELSE NoError
    IN /\ Step(3, e)
       /\ UNCHANGED <<melted, meltedSrc, combined, summary>>

process_challengers ==
    LET e == IF challengers = MISSING THEN Err("FileNotFoundError", 56)
             ELSE IF "date" \notin Range(challengers.cols) THEN Err("KeyError", 57)
             ELSE NoError
    IN /\ Step(4, e)
       /\ UNCHANGED <<melted, meltedSrc, combined, summary>>

process_summary ==
    LET e == SummaryError(rawSales, sportswear, jersey, trends)
    IN /\ Step(5, e)
       /\ summary' = IF e = NoError
                     THEN SummaryRow(rawSales, sportswear, jersey, trends)
                     ELSE summary
       /\ UNCHANGED <<melted, meltedSrc, combined>>

NextProcess ==
    \/ process_tenniscore
    \/ process_market
    \/ process_trends
    \/ process_challengers
    \/ process_summary

SpecProcess == InitProcess /\ [][NextProcess]_vars

----------------------------------------------------------------------------
(* generate_sample_data: the synthetic weekly table.  Dates are days since
   2023-01-01 (a Sunday).  The values are held as exact fractions: the floats
   of the code agree with them on every date of the grid, and int() of a
   positive value is the floor. *)

LastDay        == 1127   \* end='2026-02-01'
WindowStart    == 456    \* pd.Timestamp('2024-04-01')
WindowEnd      == 578    \* pd.Timestamp('2024-08-01')
CenterDay      == 481    \* pd.Timestamp('2024-04-26')
HalfWidth      == 120
PeakBoost      == 60
BaseTenniscore == 20
WorldCupDay    == 1257   \* pd.Timestamp('2026-06-11')
SoccerBase     == 30
WomensBase     == 40

\* pd.date_range(start, end, freq='W'): the Sundays from the start (a Sunday
\* itself) to the end, 7 days apart
SampleDates == [k \in 1..(LastDay \div 7 + 1) |-> 7 * (k - 1)]

Max(a, b) == IF a >= b THEN a ELSE b

\* a faulty variant: the date test always passes
InWindowAlways(day) == TRUE

\* date >= pd.Timestamp('2024-04-01') and date <= pd.Timestamp('2024-08-01')
InWindow(day) == day >= WindowStart /\ day <= WindowEnd

\* tenniscore_boost, times HalfWidth^2
TenniscoreBoostNum(day) ==
    IF InWindow(day)
    THEN PeakBoost * (HalfWidth * HalfWidth - (day - CenterDay) * (day - CenterDay))
    ELSE 0

\* a faulty variant: no date test and no max()
TenniscoreValUnguarded(day) ==
    BaseTenniscore * HalfWidth * HalfWidth
    + PeakBoost * (HalfWidth * HalfWidth - (day - CenterDay) * (day - CenterDay))

\* tenniscore_val = max(base_tenniscore + tenniscore_boost, base_tenniscore),
\* times HalfWidth^2
TenniscoreValNum(day) ==
    Max(BaseTenniscore * HalfWidth * HalfWidth + TenniscoreBoostNum(day),
        BaseTenniscore * HalfWidth * HalfWidth)

\* soccer_val = soccer_base + soccer_boost, times 365
SoccerValNum(day) ==
    LET days_to_wc == WorldCupDay - day
    IN SoccerBase * 365 + (IF days_to_wc < 365 THEN 50 * (365 - days_to_wc) ELSE 0)

\* the dict appended to data for one date
SampleRow(day) ==
    [date              |-> day,
     tenniscore        |-> TenniscoreValNum(day) \div (HalfWidth * HalfWidth),
     tennis_skirt      |-> (TenniscoreValNum(day) * 8) \div (HalfWidth * HalfWidth * 10),
     soccer_jersey     |-> SoccerValNum(day) \div 365,
     football_kit      |-> (SoccerValNum(day) * 7) \div (365 * 10),
     womens_activewear |-> WomensBase + day \div 30,
     category          |-> "search_trends"]

\* the list data after the loop over dates
SampleData == [k \in 1..Len(SampleDates) |-> SampleRow(SampleDates[k])]

----------------------------------------------------------------------------
(* SpecCollect: one run of collect_trends.py as a script *)

Outcomes == {"ok", "empty", "fail"}

NoFrame == [kind |-> "unset", groups |-> <<>>]

InitCollect ==
    /\ rawSales = MISSING /\ sportswear = MISSING /\ jersey = MISSING
    /\ trends = MISSING /\ challengers = MISSING
    /\ ProcStart("idle")
    /\ initOK \in BOOLEAN
    /\ outcome \in [1..Len(Groups) -> Outcomes]
    /\ cpc = "main" /\ gi = 0 /\ all_data = <<>> /\ log = <<>>
    /\ df = NoFrame /\ csv = NoFrame
    /\ data = <<>>

\* where the for loop goes after the group g
NextGroup(g) ==
    IF g < Len(Groups) THEN [cpc |-> "loop", gi |-> g + 1]
    ELSE [cpc |-> "combine", gi |-> g]

\* a faulty variant: the handler leaves the loop
OnExceptionBreak(g) == [cpc |-> "combine", gi |-> g]

\* except Exception: print; continue
OnException(g) == NextGroup(g)

\* pytrends = TrendReq(...): an exception here leaves collect_trends_data and
\* is caught by the bare except of __main__
construct_client ==
    /\ cpc = "main"
    /\ IF initOK THEN cpc' = "loop" /\ gi' = 1
                 ELSE cpc' = "except" /\ gi' = gi
    /\ UNCHANGED <<initOK, outcome, all_data, log, df, csv, data>>
    /\ UNCHANGED <<inputVars, procVars>>

\* the try body up to the sleep: build_payload, interest_over_time and, for a
\* non-empty frame, the append to all_data
call_service ==
    /\ cpc = "loop"
    /\ log' = Append(log, <<"call", gi>>)
    /\ IF outcome[gi] = "fail"
       THEN /\ cpc' = OnException(gi).cpc
            /\ gi' = OnException(gi).gi
            /\ all_data' = all_data
       ELSE /\ cpc' = "sleep"
            /\ gi' = gi
            /\ all_data' = IF outcome[gi] = "ok"
                           THEN Append(all_data, Groups[gi]) ELSE all_data
    /\ UNCHANGED <<initOK, outcome, df, csv, data>>
    /\ UNCHANGED <<inputVars, procVars>>

\* time.sleep(2), the last statement of the try body
rate_limit_sleep ==
    /\ cpc = "sleep"
    /\ log' = Append(log, <<"sleep", gi>>)
    /\ cpc' = NextGroup(gi).cpc
    /\ gi' = NextGroup(gi).gi
    /\ UNCHANGED <<initOK, outcome, all_data, df, csv, data>>
    /\ UNCHANGED <<inputVars, procVars>>

\* after the loop: concat and to_csv when all_data is not empty, None otherwise
combine_data ==
    /\ cpc = "combine"
    /\ IF all_data # <<>>
       THEN /\ df' = [kind |-> "collected", groups |-> all_data]
            /\ csv' = [kind |-> "collected", groups |-> all_data]
       ELSE /\ df' = [kind |-> "none", groups |-> <<>>]
            /\ csv' = csv
    /\ cpc' = "report"
    /\ UNCHANGED <<initOK, outcome, gi, all_data, log, data>>
    /\ UNCHANGED <<inputVars, procVars>>

\* __main__'s except branch: df = generate_sample_data()
generate_sample_data ==
    /\ cpc = "except"
    /\ data' = SampleData
    /\ df' = [kind |-> "sample", groups |-> <<"search_trends">>]
    /\ csv' = [kind |-> "sample", groups |-> <<"search_trends">>]
    /\ cpc' = "report"
    /\ UNCHANGED <<initOK, outcome, gi, all_data, log>>
    /\ UNCHANGED <<inputVars, procVars>>

\* if df is not None: print(df.head(10))
report ==
    /\ cpc = "report"
    /\ cpc' = "end"
    /\ UNCHANGED <<initOK, outcome, gi, all_data, log, df, csv, data>>
    /\ UNCHANGED <<inputVars, procVars>>

NextCollect ==
    \/ construct_client
    \/ call_service
    \/ rate_limit_sleep
    \/ combine_data
    \/ generate_sample_data
    \/ report

SpecCollect == InitCollect /\ [][NextCollect]_vars

----------------------------------------------------------------------------
(* Properties of load_tenniscore_sales (SpecSales) *)

SalesDone == ppc = "sales_done"

NRows == Len(rawSales.rows)

\* (input row, demographic column) cells whose demographic value is missing
MissingDemoCells ==
    {<<i, j>> \in (1..NRows) \X (1..Len(demo_cols)) :
        IsNull(rawSales.rows[i][demo_cols[j]])}

\* cells whose demographic value or one of whose row's id_vars is missing
MissingAnyCells ==
    {<<i, j>> \in (1..NRows) \X (1..Len(demo_cols)) :
        \/ IsNull(rawSales.rows[i][demo_cols[j]])
        \/ \E c \in Range(id_vars) : IsNull(rawSales.rows[i][c])}

\* C5 as claimed: the output has 4*N - M rows, M the number of (input row,
\* demographic column) cells whose demographic growth value is missing.
C5_RowCountAsClaimed ==
    SalesDone => Len(melted.rows) = 4 * NRows - Cardinality(MissingDemoCells)

\* C5 amended: the output has 4*N - M rows, M the number of (input row,
\* demographic column) cells whose demographic value is missing or whose input
\* row has a missing category, item or yoy_growth_pct; 3 rows with one null
\* gen_x_growth_pct (and nothing else missing) give 11 rows.
C5_RowCount ==
    SalesDone =>
        /\ Len(melted.rows) = 4 * NRows - Cardinality(MissingAnyCells)
        /\ rawSales = ExampleSales => Len(melted.rows) = 11

C5_Witness ==
    /\ SalesDone
    /\ rawSales = ExampleSales
    /\ Len(melted.rows) = 11

\* C6 as claimed: all output rows of input row i precede those of input row
\* i+1, and within one input row the rows are in demo_cols order.
C6_RowMajorAsClaimed ==
    SalesDone =>
        \A p, q \in 1..Len(meltedSrc) :
            p < q =>
                \/ meltedSrc[p][1] < meltedSrc[q][1]
                \/ meltedSrc[p][1] = meltedSrc[q][1] /\ meltedSrc[p][2] < meltedSrc[q][2]

\* C6 amended: the output is grouped by demographic in the order gen_z,
\* millennial, gen_x, baby_boomer; within one demographic the rows are in input
\* row order, and each output row carries its input row's id fields, its
\* demographic's label and that input cell's value.
C6_ColumnMajor ==
    SalesDone =>
        /\ Len(meltedSrc) = Len(melted.rows)
        /\ \A p, q \in 1..Len(meltedSrc) :
            p < q =>
                \/ meltedSrc[p][2] < meltedSrc[q][2]
                \/ meltedSrc[p][2] = meltedSrc[q][2] /\ meltedSrc[p][1] < meltedSrc[q][1]
        /\ \A p \in 1..Len(meltedSrc) :
            LET in == rawSales.rows[meltedSrc[p][1]]
                j  == meltedSrc[p][2]
            IN /\ \A c \in Range(id_vars) : melted.rows[p][c] = in[c]
               /\ melted.rows[p]["demographic"] =
                      V(<<"gen_z", "millennial", "gen_x", "baby_boomer">>[j])
               /\ melted.rows[p]["demo_growth_pct"] = in[demo_cols[j]]

\* two input rows: the second row's gen_z row precedes the first row's
\* millennial row
C6_Witness ==
    /\ SalesDone
    /\ \E p, q \in 1..Len(meltedSrc) :
        /\ p < q
        /\ meltedSrc[p] = <<2, 1>>
        /\ meltedSrc[q] = <<1, 2>>

\* Re-pivot of a long table: group by the id_vars, spread demographic to
\* demo_growth_pct under the original column names.
DemoLabels == <<"gen_z", "millennial", "gen_x", "baby_boomer">>

LongKeys(long) ==
    {[c \in Range(id_vars) |-> long.rows[i][c]] : i \in 1..Len(long.rows)}

LongIdx(long, key, label) ==
    {i \in 1..Len(long.rows) :
        /\ \A c \in Range(id_vars) : long.rows[i][c] = key[c]
        /\ long.rows[i]["demographic"] = V(label)}

Repivotable(long) ==
    \A key \in LongKeys(long) : \A j \in 1..Len(DemoLabels) :
        Cardinality(LongIdx(long, key, DemoLabels[j])) = 1

Repivot(long) ==
    {[c \in Range(SalesCols) |->
        IF c \in Range(id_vars) THEN key[c]
        ELSE LET j == CHOOSE j \in 1..Len(demo_cols) : demo_cols[j] = c
                 i == CHOOSE i \in LongIdx(long, key, DemoLabels[j]) : TRUE
             IN long.rows[i]["demo_growth_pct"]] : key \in LongKeys(long)}

RoundTrips(t, long) ==
    /\ Repivotable(long)
    /\ Cardinality(Repivot(long)) = Len(t.rows)
    /\ Repivot(long) = Range(t.rows)

NoMissingDemo(t) ==
    \A i \in 1..Len(t.rows) : \A j \in 1..Len(demo_cols) : ~IsNull(t.rows[i][demo_cols[j]])

NoMissingAtAll(t) ==
    \A i \in 1..Len(t.rows) : \A c \in Range(t.cols) : ~IsNull(t.rows[i][c])

DistinctKeys(t) ==
    \A i, k \in 1..Len(t.rows) :
        i # k => \E c \in Range(id_vars) : t.rows[i][c] # t.rows[k][c]

\* C7 as claimed: with no missing demographic value, re-pivoting the output
\* reconstructs the input up to row and column order.
C7_RoundTripAsClaimed ==
    (SalesDone /\ NoMissingDemo(rawSales)) => RoundTrips(rawSales, melted)

\* C7 amended: with no missing value in any column and no two input rows
\* agreeing on (category, item, yoy_growth_pct), re-pivoting the output (the
\* demographic labels mapped back to the *_growth_pct column names)
\* reconstructs the input up to row and column order.
C7_RoundTrip ==
    (SalesDone /\ NoMissingAtAll(rawSales) /\ DistinctKeys(rawSales))
        => RoundTrips(rawSales, melted)

C7_Witness ==
    /\ SalesDone
    /\ rawSales = FullSales
    /\ Len(melted.rows) = 12
    /\ RoundTrips(rawSales, melted)

----------------------------------------------------------------------------
(* Properties of load_market_data (SpecMarket) *)

Merged == ppc \in {"market_done", "exchanged_done"}

NoDupYears(t) ==
    \A i, k \in 1..Len(t.rows) : i # k => t.rows[i]["year"] # t.rows[k]["year"]

RowYear(row) == row["year"][1]

\* C8: without duplicate years the result has exactly the union of the years,
\* one row per year, and a year of only one input has every column of the other
\* input missing; sportswear {2023,2024,2033} and jersey {2024,2025} give 4 rows
\* with the jersey columns missing for 2023 and 2033.
C8_OuterJoinYears ==
    (Merged /\ NoDupYears(sportswear) /\ NoDupYears(jersey)) =>
        /\ {RowYear(combined.rows[i]) : i \in 1..Len(combined.rows)}
               = YearsOf(sportswear) \cup YearsOf(jersey)
        /\ Len(combined.rows) = Cardinality(YearsOf(sportswear) \cup YearsOf(jersey))
        /\ \A i \in 1..Len(combined.rows) :
            LET row == combined.rows[i]
            IN /\ RowYear(row) \notin YearsOf(jersey) =>
                      \A c \in Range(OtherCols(jersey)) : IsNull(row[c])
               /\ RowYear(row) \notin YearsOf(sportswear) =>
                      \A c \in Range(OtherCols(sportswear)) : IsNull(row[c])
        /\ (sportswear = ExampleSportswear /\ jersey = ExampleJersey) =>
               /\ Len(combined.rows) = 4
               /\ \A i \in 1..4 :
                    RowYear(combined.rows[i]) \in {2023, 2033} =>
                        /\ IsNull(combined.rows[i]["sports_jersey_market_billion_usd"])
                        /\ IsNull(combined.rows[i]["football_jersey_market_billion_usd"])

C8_Witness ==
    /\ ppc = "market_done"
    /\ sportswear = ExampleSportswear /\ jersey = ExampleJersey
    /\ [i \in 1..Len(combined.rows) |-> RowYear(combined.rows[i])]
           = <<2023, 2024, 2025, 2033>>

CountOf(rows, r) == Cardinality({i \in 1..Len(rows) : rows[i] = r})

SameRows(a, b) ==
    /\ Len(a) = Len(b)
    /\ \A r \in Range(a) \cup Range(b) : CountOf(a, r) = CountOf(b, r)

----------------------------------------------------------------------------
(* Properties of create_summary_stats (SpecSummary) *)

SummaryCalled == ppc \in {"summary_done", "summary_raised"}

MarketHasYear(y) == y \in YearsOf(sportswear) \cup YearsOf(jersey)

\* market_value_billion_usd of the merged table's first row of year y
MarketValueOf(y) ==
    IF y \in YearsOf(sportswear)
    THEN RowsOfYear(sportswear, y)[1]["market_value_billion_usd"]
    ELSE NULL

MarketLoads == rawSales # MISSING /\ sportswear # MISSING /\ jersey # MISSING

RestDerivable ==
    /\ trends # MISSING
    /\ {"date", "tenniscore", "soccer_jersey"} \subseteq Range(trends.cols)
    /\ Cardinality(MissingAnyCells) < 4 * NRows

----------------------------------------------------------------------------
(* Properties of process_all (SpecProcess) *)

ProcessEnded == ppc \in {"done", "raised"}

\* C1 as claimed: whatever fails, the derivation of every one of the five
\* tables is attempted in the run.
C1_IndependentAsClaimed ==
    ProcessEnded => Range(attempted) = Range(Tables)

----------------------------------------------------------------------------
(* Properties of the collector script (SpecCollect) *)

NoGroupData == ~initOK \/ \A g \in 1..Len(Groups) : outcome[g] = "fail"

\* C2 as claimed: when the client cannot be constructed or all three groups
\* fail, the run ends with the synthetic table written.
C2_FallbackAsClaimed ==
    (cpc = "end" /\ NoGroupData) => (csv.kind = "sample" /\ df.kind = "sample")

Calls == SelectSeq(log, LAMBDA e : e[1] = "call")

OkGroups == SelectSeq(Groups, LAMBDA c : \E g \in 1..Len(Groups) :
                                            Groups[g] = c /\ outcome[g] = "ok")

\* C3: with the client constructed, whichever groups fail, the three groups are
\* queried once each in order, the exception handler of __main__ is never
\* reached, and the combined result holds exactly the frames of the groups
\* that answered with a non-empty result (None when there is none).
C3_SkipFailingGroups ==
    initOK =>
        /\ cpc # "except"
        /\ Calls = [k \in 1..Len(Calls) |-> <<"call", k>>]
        /\ cpc \in {"combine", "report", "end"} =>
               /\ Len(Calls) = Len(Groups)
               /\ all_data = OkGroups
        /\ cpc \in {"report", "end"} =>
               /\ df.groups = OkGroups
               /\ df.kind = (IF OkGroups = <<>> THEN "none" ELSE "collected")
               /\ csv = (IF OkGroups = <<>> THEN NoFrame ELSE df)

C3_Witness ==
    /\ cpc = "end"
    /\ outcome = <<"fail", "ok", "fail">>
    /\ Len(Calls) = 3
    /\ df = [kind |-> "collected", groups |-> <<"soccer_fashion">>]

\* C10 as claimed: no two consecutive external calls without the delay between
\* them, whatever the outcome of the earlier call.
C10_DelayAsClaimed ==
    \A k \in 1..(Len(log) - 1) : log[k][1] = "call" => log[k + 1][1] = "sleep"

----------------------------------------------------------------------------
(* Properties of generate_sample_data (SpecCollect) *)

SampleWritten == csv.kind = "sample"

\* days from the center date 2024-04-26 of row k of data
DaysFromCenter(k) == data[k].date - CenterDay

Abs(x) == IF x < 0 THEN -x ELSE x

\* C11: a row dated exactly at the center date has tenniscore baseline + 60 =
\* 80, and every row dated more than 120 days before or after the center date
\* has tenniscore 20 exactly.  The weekly grid holds no row at the center date
\* itself, so the row computed for that date is checked as well.
C11_CenterAndFar ==
    SampleWritten =>
        /\ \A k \in 1..Len(data) :
            /\ DaysFromCenter(k) = 0 => data[k].tenniscore = 80
            /\ Abs(DaysFromCenter(k)) > 120 => data[k].tenniscore = 20
        /\ SampleRow(CenterDay).tenniscore = 80

\* rows more than 120 days before and after the center, both at the baseline
C11_Witness ==
    /\ SampleWritten
    /\ Len(data) = 162
    /\ \E k, m \in 1..Len(data) :
        /\ DaysFromCenter(k) = -124 /\ data[k].tenniscore = 20
        /\ DaysFromCenter(m) = 121 /\ data[m].tenniscore = 20

\* the integer truncation of 20 + 60 * (1 - (d/120)^2)
ParabolaTrunc(d) == (20 * 14400 + 60 * (14400 - d * d)) \div 14400

\* C12 as claimed: every row within 120 days of the center date carries the
\* truncated parabola, and no row is below 20.
C12_ParabolaAsClaimed ==
    SampleWritten =>
        \A k \in 1..Len(data) :
            /\ Abs(DaysFromCenter(k)) <= 120 =>
                   data[k].tenniscore = ParabolaTrunc(DaysFromCenter(k))
            /\ data[k].tenniscore >= 20

\* C12 amended: the bump is the parabola of half-width 120 days around
\* 2024-04-26 cut to the dates 2024-04-01 .. 2024-08-01 (25 days before to 97
\* days after the center): a row in that window has tenniscore equal to the
\* integer truncation of 20 + 60*(1 - (d/120)^2), every other row, those within
\* 120 days of the center included, has exactly 20, and no row is below 20.
C12_WindowedParabola ==
    SampleWritten =>
        \A k \in 1..Len(data) :
            /\ (DaysFromCenter(k) >= -25 /\ DaysFromCenter(k) <= 97) =>
                   data[k].tenniscore = ParabolaTrunc(DaysFromCenter(k))
            /\ (DaysFromCenter(k) < -25 \/ DaysFromCenter(k) > 97) =>
                   data[k].tenniscore = 20
            /\ data[k].tenniscore >= 20

\* the first row of the window carries the parabola, the row a week earlier
\* (26 days before the center) the baseline
C12_Witness ==
    /\ SampleWritten
    /\ \E k \in 1..(Len(data) - 1) :
        /\ DaysFromCenter(k) = -26 /\ data[k].tenniscore = 20
        /\ DaysFromCenter(k + 1) = -19 /\ data[k + 1].tenniscore = 78

----------------------------------------------------------------------------
(* Order of the files of process_all (SpecProcess) *)

\* C13: in every state of a run of process_all, failed runs included, the files
\* written are a prefix of the order tenniscore_processed, market_combined,
\* trends_processed, challengers_processed, summary_stats; summary_stats.csv is
\* written only if the other four were.
C13_WrittenIsPrefix ==
    /\ Len(written) <= Len(Files)
    /\ written = SubSeq(Files, 1, Len(written))
    /\ "summary_stats.csv" \in Range(written) => Range(written) = Range(Files)

\* a run that failed part-way, after two files
C13_Witness ==
    /\ ppc = "raised"
    /\ written = <<"tenniscore_processed.csv", "market_combined.csv">>

====
